---- MODULE Spec2Model ----
(***************************************************************************)
(* Model of the file organizer of Metadata2File (src/Metadata2File.py and  *)
(* src/main.py): the type classifier FileProcessor.detect_file_type, the   *)
(* file-name construction, the organizing loop                             *)
(* FileProcessor.process_and_organize_files, and the window                *)
(* FileOrganizerGUI with the worker threads its Start button launches.     *)
(*                                                                         *)
(* Text is modelled as a sequence of characters (one-character strings).   *)
(* The only multi-character elements are opaque fragments that no          *)
(* operation of the program looks into and that hold neither "." nor "/":  *)
(* the folder names and the fixed part of an OSError message.              *)
(* Bytes are the integers 0..255.                                          *)
(***************************************************************************)
EXTENDS Integers, Sequences, FiniteSets, TLC

VARIABLES
    cfile,      \* classifier harness: the file handed to detect_file_type
    cres,       \* classifier harness: what the call produced
    cpc,        \* classifier harness: "ready" | "done"
    tree,       \* the source tree: the files os.walk will enumerate, in order
    dest,       \* destination file system: path -> [src, run, complete]
    dirs,       \* directories that exist under (and including) output_folder
    pc,         \* "idle" | "processing" | "returned" | "raised" | "killed"
    run,        \* number of the current run (1..MaxRuns), 0 before the first
    opts,       \* [organize_by_type, add_metadata_to_filename] of the run
    files,      \* the list built by the scan of the current run
    idx,        \* number of files of `files` already visited
    results,    \* the results dictionary of the current run
    plan,       \* per run, per visited file: what the loop computed and did
    detects,    \* number of detect_file_type calls for the file just visited
    faults,     \* number of faults the environment has injected so far
    snap,       \* destination as it was when each run ended
    root,       \* what input_folder is: "ok" | "missing" | "file" | "denied"
                \* | "holds_output" (a readable folder with output_folder in it)
    progress_callback,  \* "none" | "returns" | "raises"
    logger,     \* whether the FileProcessor has a FileLogger (src/main.py)
    gui,        \* FileOrganizerGUI: [window, processing, start_button,
                \*                    stop_button, status, dialog]
    workers,    \* the threads started by start_processing, each at
                \* "call" | "loop" | "report" | "finally" | "l583" | "done" | "killed"
    stop_at     \* idx when Stop was first pressed while this run was
                \* processing a file, -1 when it was not

vars == <<cfile, cres, cpc, tree, dest, dirs, pc, run, opts, files, idx,
          results, plan, detects, faults, snap, root, progress_callback,
          logger, gui, workers, stop_at>>

classifierVars == <<cfile, cres, cpc>>
pipelineVars == <<tree, dest, dirs, pc, run, opts, files, idx, results, plan,
                  detects, faults, snap>>
appVars == <<root, progress_callback, logger, gui, workers, stop_at>>

(***************************************************************************)
(* Bounds of the model.                                                    *)
(***************************************************************************)
MaxFiles == 2
MaxRuns == 2
MaxFaults == 1

(***************************************************************************)
(* Text helpers: str.lower, str.rfind, pathlib suffix/stem,                *)
(* os.path.splitext, os.path.join, str(int).                               *)
(***************************************************************************)
Min(a, b) == IF a < b THEN a ELSE b

Take(s, n) == SubSeq(s, 1, Min(n, Len(s)))

Drop(s, n) == SubSeq(s, n + 1, Len(s))

LowerChar(c) ==
    CASE c = "A" -> "a" [] c = "B" -> "b" [] c = "C" -> "c" [] c = "D" -> "d"
      [] c = "E" -> "e" [] c = "F" -> "f" [] c = "G" -> "g" [] c = "H" -> "h"
      [] c = "I" -> "i" [] c = "J" -> "j" [] c = "K" -> "k" [] c = "L" -> "l"
      [] c = "M" -> "m" [] c = "N" -> "n" [] c = "O" -> "o" [] c = "P" -> "p"
      [] c = "Q" -> "q" [] c = "R" -> "r" [] c = "S" -> "s" [] c = "T" -> "t"
      [] c = "U" -> "u" [] c = "V" -> "v" [] c = "W" -> "w" [] c = "X" -> "x"
      [] c = "Y" -> "y" [] c = "Z" -> "z" [] OTHER -> c

lower(s) == [k \in 1..Len(s) |-> LowerChar(s[k])]

\* str.rfind as a 1-based position, 0 when the character does not occur
rfind(s, c) ==
    LET hits == {k \in 1..Len(s) : s[k] = c}
    IN  IF hits = {} THEN 0 ELSE CHOOSE k \in hits : \A j \in hits : j <= k

\* pathlib.PurePath.suffix of a file name (CPython 3.11: the text from the
\* last dot on, when that dot is neither the first nor the last character)
suffix(name) ==
    LET k == rfind(name, ".")
    IN  IF 1 < k /\ k < Len(name) THEN Drop(name, k - 1) ELSE <<>>

\* pathlib.PurePath.stem
stem(name) ==
    LET k == rfind(name, ".")
    IN  IF 1 < k /\ k < Len(name) THEN Take(name, k - 1) ELSE name

\* os.path.splitext (genericpath._splitext): split at the last dot when it
\* lies after the last separator and some character between the separator
\* and that dot is not a dot
splitext(p) ==
    LET sepK == rfind(p, "/")
        dotK == rfind(p, ".")
    IN  IF dotK > sepK /\ \E j \in (sepK + 1)..(dotK - 1) : p[j] # "."
        THEN <<Take(p, dotK - 1), Drop(p, dotK - 1)>>
        ELSE <<p, <<>>>>

path_join(a, b) == a \o <<"/">> \o b

dirname(p) == Take(p, rfind(p, "/") - 1)

basename(p) == Drop(p, rfind(p, "/"))

DigitChar(d) ==
    CASE d = 0 -> "0" [] d = 1 -> "1" [] d = 2 -> "2" [] d = 3 -> "3"
      [] d = 4 -> "4" [] d = 5 -> "5" [] d = 6 -> "6" [] d = 7 -> "7"
      [] d = 8 -> "8" [] OTHER -> "9"

RECURSIVE int_str(_)
int_str(n) ==
    IF n < 10 THEN <<DigitChar(n)>>
    ELSE int_str(n \div 10) \o <<DigitChar(n % 10)>>

(***************************************************************************)
(* The static tables of FileProcessor.                                     *)
(***************************************************************************)
\* SUPPORTED_FORMATS, in declaration order: category and its extensions
SUPPORTED_FORMATS == <<
    [category |-> "Images", extensions |-> {
        <<".", "j", "p", "g">>,
        <<".", "j", "p", "e", "g">>,
        <<".", "p", "n", "g">>,
        <<".", "b", "m", "p">>,
        <<".", "t", "i", "f", "f">>,
        <<".", "g", "i", "f">>,
        <<".", "w", "e", "b", "p">>,
        <<".", "h", "e", "i", "c">>}],
    [category |-> "Documents", extensions |-> {
        <<".", "p", "d", "f">>,
        <<".", "d", "o", "c", "x">>,
        <<".", "d", "o", "c">>,
        <<".", "t", "x", "t">>,
        <<".", "p", "p", "t", "x">>,
        <<".", "p", "p", "t">>}],
    [category |-> "Videos", extensions |-> {
        <<".", "m", "p", "4">>,
        <<".", "a", "v", "i">>,
        <<".", "m", "k", "v">>,
        <<".", "m", "o", "v">>,
        <<".", "w", "m", "v">>,
        <<".", "f", "l", "v">>,
        <<".", "w", "e", "b", "m">>}],
    [category |-> "Audio", extensions |-> {
        <<".", "m", "p", "3">>,
        <<".", "f", "l", "a", "c">>,
        <<".", "w", "a", "v">>,
        <<".", "o", "g", "g">>,
        <<".", "m", "4", "a">>,
        <<".", "a", "a", "c">>}],
    [category |-> "Archives", extensions |-> {
        <<".", "z", "i", "p">>,
        <<".", "r", "a", "r">>,
        <<".", "7", "z">>,
        <<".", "t", "a", "r">>,
        <<".", "g", "z">>}],
    [category |-> "Executables", extensions |-> {
        <<".", "e", "x", "e">>,
        <<".", "m", "s", "i">>,
        <<".", "d", "m", "g">>,
        <<".", "d", "e", "b">>,
        <<".", "r", "p", "m">>}]
>>

\* the signatures dictionary of detect_file_type, in insertion order
signatures == <<
    [sig |-> <<255, 216, 255>>, category |-> "Images", format |-> <<"j", "p", "e", "g">>],
    [sig |-> <<137, 80, 78, 71, 13, 10, 26, 10>>, category |-> "Images", format |-> <<"p", "n", "g">>],
    [sig |-> <<71, 73, 70, 56, 55, 97>>, category |-> "Images", format |-> <<"g", "i", "f">>],
    [sig |-> <<71, 73, 70, 56, 57, 97>>, category |-> "Images", format |-> <<"g", "i", "f">>],
    [sig |-> <<66, 77>>, category |-> "Images", format |-> <<"b", "m", "p">>],
    [sig |-> <<102, 116, 121, 112, 104, 101, 105, 99>>, category |-> "Images", format |-> <<"h", "e", "i", "c">>],
    [sig |-> <<102, 116, 121, 112, 104, 101, 105, 120>>, category |-> "Images", format |-> <<"h", "e", "i", "c">>],
    [sig |-> <<102, 116, 121, 112, 109, 105, 102, 49>>, category |-> "Images", format |-> <<"h", "e", "i", "c">>],
    [sig |-> <<102, 116, 121, 112, 109, 115, 102, 49>>, category |-> "Images", format |-> <<"h", "e", "i", "c">>],
    [sig |-> <<82, 73, 70, 70>>, category |-> "Videos", format |-> <<"w", "e", "b", "p">>],
    [sig |-> <<0, 0, 0, 24, 102, 116, 121, 112, 109, 112, 52>>, category |-> "Videos", format |-> <<"m", "p", "4">>],
    [sig |-> <<0, 0, 0, 32, 102, 116, 121, 112, 77, 52, 86>>, category |-> "Videos", format |-> <<"m", "p", "4">>],
    [sig |-> <<37, 80, 68, 70>>, category |-> "Documents", format |-> <<"p", "d", "f">>],
    [sig |-> <<80, 75, 3, 4>>, category |-> "Documents", format |-> <<"o", "f", "f", "i", "c", "e">>],
    [sig |-> <<73, 68, 51>>, category |-> "Audio", format |-> <<"m", "p", "3">>],
    [sig |-> <<255, 251>>, category |-> "Audio", format |-> <<"m", "p", "3">>],
    [sig |-> <<255, 243>>, category |-> "Audio", format |-> <<"m", "p", "3">>],
    [sig |-> <<102, 76, 97, 67>>, category |-> "Audio", format |-> <<"f", "l", "a", "c">>],
    [sig |-> <<79, 103, 103, 83>>, category |-> "Audio", format |-> <<"o", "g", "g">>],
    [sig |-> <<80, 75>>, category |-> "Archives", format |-> <<"z", "i", "p">>],
    [sig |-> <<82, 97, 114, 33>>, category |-> "Archives", format |-> <<"r", "a", "r">>],
    [sig |-> <<55, 122, 188, 175, 39, 50, 55, 28>>, category |-> "Archives", format |-> <<"7", "z">>],
    [sig |-> <<77, 90>>, category |-> "Executables", format |-> <<"e", "x", "e">>]
>>

(***************************************************************************)
(* The file system calls detect_file_type makes.  A source file is a       *)
(* record [dir, name, status, content, probe]; status says which call      *)
(* fails on it:                                                            *)
(*   "ok"       every call succeeds                                        *)
(*   "missing"  os.path.getsize raises FileNotFoundError                   *)
(*   "denied"   open(..., 'rb') raises PermissionError                     *)
(*   "isdir"    open(..., 'rb') raises IsADirectoryError                   *)
(*   "ioerror"  f.read raises OSError                                      *)
(* A call yields [ok |-> TRUE, val |-> v] or [ok |-> FALSE, err |-> text]. *)
(***************************************************************************)
HeaderLen == 32

UNKNOWN == <<"u", "n", "k", "n", "o", "w", "n">>

Statuses == {"ok", "missing", "denied", "isdir", "ioerror"}

file_path(f) == path_join(f.dir, f.name)

\* str(e) of an OSError raised with a file name: "[Errno n] text: 'path'"
OSErrorText(what, path) == <<what>> \o path \o <<"'">>

os_getsize(f) ==
    IF f.status = "missing"
    THEN [ok |-> FALSE,
          err |-> OSErrorText("[Errno 2] No such file or directory: '", file_path(f))]
    ELSE [ok |-> TRUE, val |-> Len(f.content)]

open_rb(f) ==
    CASE f.status = "missing" ->
            [ok |-> FALSE,
             err |-> OSErrorText("[Errno 2] No such file or directory: '", file_path(f))]
      [] f.status = "denied" ->
            [ok |-> FALSE,
             err |-> OSErrorText("[Errno 13] Permission denied: '", file_path(f))]
      [] f.status = "isdir" ->
            [ok |-> FALSE,
             err |-> OSErrorText("[Errno 21] Is a directory: '", file_path(f))]
      [] OTHER -> [ok |-> TRUE, val |-> f]

\* f.read(n): the first n bytes, fewer when the file is shorter
file_read(f, n) ==
    IF f.status = "ioerror"
    THEN [ok |-> FALSE, err |-> <<"[Errno 5] Input/output error">>]
    ELSE [ok |-> TRUE, val |-> Take(f.content, n)]

(***************************************************************************)
(* FileProcessor.detect_file_type                                          *)
(***************************************************************************)
Return(category, format, method) ==
    [kind |-> "return", category |-> category, format |-> format,
     method |-> method]

Raise(err) ==
    [kind |-> "raise", category |-> "", format |-> err, method |-> ""]

\* mutant: the test written the wrong way round (sig.startswith(header))
startswith_reversed(header, sig) ==
    Len(header) <= Len(sig) /\ SubSeq(sig, 1, Len(header)) = header

\* bytes.startswith
startswith(header, sig) ==
    Len(sig) <= Len(header) /\ SubSeq(header, 1, Len(sig)) = sig

\* mutant: the last matching entry wins instead of the first
RECURSIVE LastSignature(_, _)
LastSignature(header, i) ==
    IF i > Len(signatures) THEN 0
    ELSE LET later == LastSignature(header, i + 1)
         IN  IF later # 0 THEN later
             ELSE IF Len(signatures[i].sig) <= Len(header)
                     /\ SubSeq(header, 1, Len(signatures[i].sig)) = signatures[i].sig
                  THEN i
             ELSE 0

\* for sig, (category, format_type) in signatures.items(): the index of the
\* first entry, from i on, whose sig the header starts with; 0 when none
RECURSIVE FirstSignature(_, _)
FirstSignature(header, i) ==
    IF i > Len(signatures) THEN 0
    ELSE IF startswith(header, signatures[i].sig) THEN i
    ELSE FirstSignature(header, i + 1)

\* for category, extensions in SUPPORTED_FORMATS.items(): the index of the
\* first category, from i on, that lists ext; 0 when none
RECURSIVE FirstCategory(_, _)
FirstCategory(ext, i) ==
    IF i > Len(SUPPORTED_FORMATS) THEN 0
    ELSE IF ext \in SUPPORTED_FORMATS[i].extensions THEN i
    ELSE FirstCategory(ext, i + 1)

\* mutant: the suffix compared as it is written, without .lower()
detect_ext_case_sensitive(f) == suffix(f.name)

\* ext = Path(file_path).suffix.lower()
detect_ext(f) == lower(suffix(f.name))

\* the extension fallback and the final 'Other' of detect_file_type
classify_by_extension(f) ==
    LET ext == detect_ext(f)
        c == FirstCategory(ext, 1)
    IN  IF c # 0
        THEN Return(SUPPORTED_FORMATS[c].category, Tail(ext), "file_extension")
        ELSE Return("Other", UNKNOWN, "unknown")

\* mutant: a known extension is trusted before the signatures are tried
classify_header_extension_first(f, header) ==
    IF classify_by_extension(f).method = "file_extension"
    THEN classify_by_extension(f)
    ELSE IF FirstSignature(header, 1) # 0
    THEN Return(signatures[FirstSignature(header, 1)].category,
                signatures[FirstSignature(header, 1)].format, "magic_bytes")
    ELSE classify_by_extension(f)

\* the signature loop, then the fallback
classify_header(f, header) ==
    LET m == FirstSignature(header, 1)
    IN  IF m # 0
        THEN Return(signatures[m].category, signatures[m].format, "magic_bytes")
        ELSE classify_by_extension(f)

\* the body of the try block: the first failing call raises
detect_try(f) ==
    LET size == os_getsize(f)
        fh == open_rb(f)
        rd == file_read(f, HeaderLen)
    IN  IF ~size.ok THEN Raise(size.err)
        ELSE IF ~fh.ok THEN Raise(fh.err)
        ELSE IF ~rd.ok THEN Raise(rd.err)
        ELSE classify_header(f, rd.val)

\* mutant: no except clause, the exception leaves the function
detect_file_type_unguarded(f) == detect_try(f)

\* try: ... except Exception as e: return 'Error', str(e), 'error'
detect_file_type(f) ==
    LET r == detect_try(f)
    IN  IF r.kind = "raise" THEN Return("Error", r.format, "error") ELSE r

(***************************************************************************)
(* The metadata probes.  The decoders are external libraries: what a       *)
(* decoder finds in a file is the file's `probe` field,                    *)
(* [ok, w, h, n, fmt]: ok = FALSE when the decoder raises (or cannot open  *)
(* the file), otherwise the numbers and the format name it reads.          *)
(***************************************************************************)
\* f"{img.size[0]}x{img.size[1]}_{img.format}", "unknown" on any exception
get_image_info(f) ==
    IF f.probe.ok
    THEN int_str(f.probe.w) \o <<"x">> \o int_str(f.probe.h) \o <<"_">> \o f.probe.fmt
    ELSE UNKNOWN

\* f"{width}x{height}_{fps}fps", "unknown" when not opened or on exception
get_video_info(f) ==
    IF f.probe.ok
    THEN int_str(f.probe.w) \o <<"x">> \o int_str(f.probe.h) \o <<"_">>
            \o int_str(f.probe.n) \o <<"f", "p", "s">>
    ELSE UNKNOWN

\* f"{duration}s_{bitrate}kbps", "unknown" when no info or on exception
get_audio_info(f) ==
    IF f.probe.ok
    THEN int_str(f.probe.w) \o <<"s", "_">> \o int_str(f.probe.n) \o <<"k", "b", "p", "s">>
    ELSE UNKNOWN

\* counts by extension; "document" for any other extension and on exception
get_document_info(f) ==
    LET ext == lower(suffix(f.name))
    IN  IF ext = <<".", "p", "d", "f">> THEN
            IF f.probe.ok THEN int_str(f.probe.n) \o <<"p", "a", "g", "e", "s">>
            ELSE <<"d", "o", "c", "u", "m", "e", "n", "t">>
        ELSE IF ext \in {<<".", "d", "o", "c", "x">>, <<".", "d", "o", "c">>} THEN
            IF f.probe.ok THEN int_str(f.probe.n) \o <<"p", "a", "r", "a", "g", "r", "a", "p", "h", "s">>
            ELSE <<"d", "o", "c", "u", "m", "e", "n", "t">>
        ELSE IF ext \in {<<".", "p", "p", "t", "x">>, <<".", "p", "p", "t">>} THEN
            IF f.probe.ok THEN int_str(f.probe.n) \o <<"s", "l", "i", "d", "e", "s">>
            ELSE <<"d", "o", "c", "u", "m", "e", "n", "t">>
        ELSE IF ext = <<".", "t", "x", "t">> THEN
            IF f.probe.ok THEN int_str(f.probe.n) \o <<"l", "i", "n", "e", "s">>
            ELSE <<"d", "o", "c", "u", "m", "e", "n", "t">>
        ELSE <<"d", "o", "c", "u", "m", "e", "n", "t">>

\* mutant: the image decoder is tried on the files of every other category
metadata_info_probes_all(f, category) ==
    CASE category = "Videos" -> get_video_info(f)
      [] category = "Audio" -> get_audio_info(f)
      [] category = "Documents" -> get_document_info(f)
      [] OTHER -> get_image_info(f)

\* the category dispatch of create_organized_filename; info = "" otherwise
metadata_info(f, category) ==
    CASE category = "Images" -> get_image_info(f)
      [] category = "Videos" -> get_video_info(f)
      [] category = "Audio" -> get_audio_info(f)
      [] category = "Documents" -> get_document_info(f)
      [] OTHER -> <<>>

\* "Ensure extension exists": the file's own suffix, else "." + format_type
\* when that is non-empty and not 'unknown', else ".unknown"
ensure_extension(f, format_type) ==
    IF suffix(f.name) # <<>> THEN suffix(f.name)
    ELSE IF format_type # <<>> /\ format_type # UNKNOWN
         THEN <<".">> \o format_type
         ELSE <<".">> \o UNKNOWN

\* mutant: the token "unknown" is not filtered out
create_organized_filename_keeps_unknown(f, category) ==
    LET original_name == stem(f.name)
        extension == ensure_extension(f, detect_file_type(f).format)
        info == metadata_info(f, category)
    IN  IF info # <<>>
        THEN original_name \o <<"_">> \o info \o extension
        ELSE original_name \o extension

\* FileProcessor.create_organized_filename; it classifies the file again
\* when the name has no extension
create_organized_filename(f, category) ==
    LET original_name == stem(f.name)
        extension == ensure_extension(f, detect_file_type(f).format)
        info == metadata_info(f, category)
    IN  IF info # <<>> /\ info # UNKNOWN
        THEN original_name \o <<"_">> \o info \o extension
        ELSE original_name \o extension

\* the add_metadata_to_filename = False branch of the loop
plain_filename(f, format_type) ==
    stem(f.name) \o ensure_extension(f, format_type)

(***************************************************************************)
(* The destination file system and shutil.copy2.                           *)
(***************************************************************************)
output_folder == <<"out">>

input_folder == <<"in">>

\* mutant: os.path.isdir where os.path.exists is meant
exists_isdir(p, fsFiles, fsDirs) == p \in fsDirs

\* os.path.exists on a file system with files fsFiles and directories fsDirs
exists(p, fsFiles, fsDirs) == p \in fsFiles \/ p \in fsDirs

\* what a fault injected by the environment does to this visit:
\*   "none"          nothing fails that the file itself does not make fail
\*   "makedirs"      os.makedirs raises (destination not writable)
\*   "copy_before"   copy2 raises before the destination file is created
\*   "copy_partial"  copy2 raises after it created the destination file
\*                   (disk full while writing, copystat refused)
Faults == {"none", "makedirs", "copy_before", "copy_partial"}

\* shutil.copy2(src, dst): [raised, at, complete, written]; `at` is the path it
\* writes (dst, or dst/basename(src) when dst is a directory)
copy2(f, dst, fault, fsDirs) ==
    LET at == IF dst \in fsDirs THEN path_join(dst, f.name) ELSE dst
    IN  IF f.status \in {"missing", "denied", "isdir"} \/ fault = "copy_before"
           \/ dirname(at) \notin fsDirs \/ at \in fsDirs
        THEN [raised |-> TRUE, written |-> FALSE, at |-> at, complete |-> FALSE]
        ELSE IF f.status = "ioerror" \/ fault = "copy_partial"
        THEN [raised |-> TRUE, written |-> TRUE, at |-> at, complete |-> FALSE]
        ELSE [raised |-> FALSE, written |-> TRUE, at |-> at, complete |-> TRUE]

(***************************************************************************)
(* FileProcessor.process_and_organize_files                                *)
(***************************************************************************)
\* mutant: the organize_by_type flag is ignored
dest_folder_of_always_category(category, organize_by_type) ==
    path_join(output_folder, <<category>>)

\* dest_folder = os.path.join(output_folder, category) if organize_by_type
dest_folder_of(category, organize_by_type) ==
    IF organize_by_type THEN path_join(output_folder, <<category>>)
    ELSE output_folder

\* mutant: the add_metadata_to_filename flag is ignored
candidate_filename_always_metadata(f, d, add_metadata_to_filename) ==
    create_organized_filename(f, d.category)

\* new_filename before the duplicate handling
candidate_filename(f, d, add_metadata_to_filename) ==
    IF add_metadata_to_filename
    THEN create_organized_filename(f, d.category)
    ELSE plain_filename(f, d.format)

\* mutant: "if" where "while" is meant, the renamed path is not tested again
free_path_once(folder, new_filename, base_name, ext, counter, fsFiles, fsDirs) ==
    IF path_join(folder, new_filename) \notin fsFiles \cup fsDirs
    THEN path_join(folder, new_filename)
    ELSE path_join(folder, base_name \o <<"_">> \o int_str(counter) \o ext)

\* while os.path.exists(dest_path): new_filename = f"{base_name}_{counter}{ext}"
RECURSIVE free_path(_, _, _, _, _, _, _)
free_path(folder, new_filename, base_name, ext, counter, fsFiles, fsDirs) ==
    LET dest_path == path_join(folder, new_filename)
    IN  IF ~exists(dest_path, fsFiles, fsDirs) THEN dest_path
        ELSE free_path(folder, base_name \o <<"_">> \o int_str(counter) \o ext,
                       base_name, ext, counter + 1, fsFiles, fsDirs)

\* mutant: no duplicate handling at all
unique_dest_path_unchecked(folder, new_filename, fsFiles, fsDirs) ==
    path_join(folder, new_filename)

\* "Handle duplicate filenames": the path handed to shutil.copy2
unique_dest_path(folder, new_filename, fsFiles, fsDirs) ==
    LET parts == splitext(new_filename)
    IN  free_path(folder, new_filename, parts[1], parts[2], 1, fsFiles, fsDirs)

\* mutant: the counter of the category is set to 1, not incremented
count_category_restarts(categories, category) ==
    [c \in DOMAIN categories \cup {category} |->
        IF c = category THEN 1 ELSE categories[c]]

\* results['categories'][category] += 1, the key created at 0 when absent
count_category(categories, category) ==
    [c \in DOMAIN categories \cup {category} |->
        IF c = category
        THEN (IF c \in DOMAIN categories THEN categories[c] ELSE 0) + 1
        ELSE categories[c]]

EmptyResults ==
    [total_files |-> 0, processed_files |-> 0, errors |-> <<>>,
     categories |-> <<>>]

\* os.makedirs(dest_folder, exist_ok=True): the folder and its parents
makedirs(folder, fsDirs) == fsDirs \cup {output_folder, folder}

\* mutant: the except branch swallows the error
visit_failed_silent(f, d, folder, new_filename, dest_path, existed, written, text, fs, fsDirs, res) ==
    [entry |-> [src |-> file_path(f), category |-> d.category,
                format |-> d.format,
                planned |-> dest_path # <<>>, folder |-> folder,
                candidate |-> new_filename, dest_path |-> dest_path,
                existed |-> existed, written |-> written, copied |-> FALSE],
     dest |-> fs,
     dirs |-> fsDirs,
     results |-> res]

\* the except branch of the loop: the error is appended, nothing is counted
visit_failed(f, d, folder, new_filename, dest_path, existed, written, text, fs, fsDirs, res) ==
    [entry |-> [src |-> file_path(f), category |-> d.category,
                format |-> d.format,
                planned |-> dest_path # <<>>, folder |-> folder,
                candidate |-> new_filename, dest_path |-> dest_path,
                existed |-> existed, written |-> written, copied |-> FALSE],
     dest |-> fs,
     dirs |-> fsDirs,
     results |-> [res EXCEPT !.errors =
                    Append(@, [file_path |-> file_path(f), error |-> text,
                               timestamp |-> "isoformat"])]]

\* mutant: the file is counted twice
visit_copied_twice(f, d, folder, new_filename, dest_path, existed, fs, fsDirs, res) ==
    [entry |-> [src |-> file_path(f), category |-> d.category,
                format |-> d.format,
                planned |-> TRUE, folder |-> folder,
                candidate |-> new_filename, dest_path |-> dest_path,
                existed |-> existed, written |-> TRUE, copied |-> TRUE],
     dest |-> fs,
     dirs |-> fsDirs,
     results |-> [res EXCEPT !.categories = count_category(@, d.category),
                             !.processed_files = @ + 2]]

\* "Update statistics", after shutil.copy2 returned
visit_copied(f, d, folder, new_filename, dest_path, existed, fs, fsDirs, res) ==
    [entry |-> [src |-> file_path(f), category |-> d.category,
                format |-> d.format,
                planned |-> TRUE, folder |-> folder,
                candidate |-> new_filename, dest_path |-> dest_path,
                existed |-> existed, written |-> TRUE, copied |-> TRUE],
     dest |-> fs,
     dirs |-> fsDirs,
     results |-> [res EXCEPT !.categories = count_category(@, d.category),
                             !.processed_files = @ + 1]]

\* the file system after copy2 wrote (all or part of) f at path `at`
write_file(fs, at, f, complete) ==
    [q \in DOMAIN fs \cup {at} |->
        IF q = at
        THEN [src |-> file_path(f), run |-> run, complete |-> complete]
        ELSE fs[q]]

\* shutil.copy2(file_path, dest_path) and what follows it
visit_copy(f, d, folder, new_filename, dest_path, cp, existed, fs, fsDirs, res) ==
    IF cp.raised
    THEN visit_failed(f, d, folder, new_filename, dest_path, existed,
                      cp.written, <<"copy2 failed">>,
                      IF cp.written THEN write_file(fs, cp.at, f, cp.complete)
                      ELSE fs,
                      fsDirs, res)
    ELSE visit_copied(f, d, folder, new_filename, dest_path, existed,
                      write_file(fs, cp.at, f, cp.complete), fsDirs, res)

\* "Handle duplicate filenames", then the copy
visit_path(f, d, folder, new_filename, dest_path, fault, fs, fsDirs, res) ==
    visit_copy(f, d, folder, new_filename, dest_path,
               copy2(f, dest_path, fault, fsDirs),
               exists(dest_path, DOMAIN fs, fsDirs), fs, fsDirs, res)

\* the file name, once the destination folder exists
visit_name(f, d, folder, new_filename, fault, fs, fsDirs, res) ==
    visit_path(f, d, folder, new_filename,
               unique_dest_path(folder, new_filename, DOMAIN fs, fsDirs),
               fault, fs, fsDirs, res)

\* os.makedirs(dest_folder, exist_ok=True), which raises under the fault
\* "makedirs" when it has a folder to create
visit_folder(f, d, folder, fault, add_metadata_to_filename, fs, fsDirs, res) ==
    IF fault = "makedirs" /\ folder \notin fsDirs
    THEN visit_failed(f, d, folder, <<>>, <<>>, FALSE, FALSE,
                      <<"makedirs failed">>, fs, fsDirs, res)
    ELSE visit_name(f, d, folder,
                    candidate_filename(f, d, add_metadata_to_filename),
                    fault, fs, makedirs(folder, fsDirs), res)

\* the loop body after "category, format_type, detection_method = ..."; an
\* exception of the call goes to the except branch of the loop
visit_classified(f, d, fault, organize_by_type, add_metadata_to_filename, fs, fsDirs, res) ==
    IF d.kind = "raise"
    THEN visit_failed(f, d, <<>>, <<>>, <<>>, FALSE, FALSE, d.format,
                      fs, fsDirs, res)
    ELSE visit_folder(f, d, dest_folder_of(d.category, organize_by_type),
                      fault, add_metadata_to_filename, fs, fsDirs, res)

\* one iteration of the for loop, on file f, with the environment injecting
\* `fault`, on the file system (fs, fsDirs): what the iteration computed
\* (entry) and the file system and results it leaves
visit(f, fault, organize_by_type, add_metadata_to_filename, fs, fsDirs, res) ==
    visit_classified(f, detect_file_type(f), fault, organize_by_type,
                     add_metadata_to_filename, fs, fsDirs, res)

\* the iteration from its first statement: progress_callback(i + 1, ...) is
\* called inside the try, so a callback that raises sends the file to the
\* except branch before it is classified
visit_called(f, fault, callback, organize_by_type, add_metadata_to_filename, fs, fsDirs, res) ==
    IF callback = "raises"
    THEN visit_failed(f, Raise(<<"callback failed">>), <<>>, <<>>, <<>>,
                      FALSE, FALSE, <<"callback failed">>, fs, fsDirs, res)
    ELSE visit(f, fault, organize_by_type, add_metadata_to_filename,
               fs, fsDirs, res)

\* whether the fault changes anything: a folder is left to create, or the
\* copy of f would otherwise succeed
fault_applies(f, fault, organize_by_type, fsDirs) ==
    IF fault = "makedirs"
    THEN dest_folder_of(detect_file_type(f).category, organize_by_type)
            \notin fsDirs
    ELSE f.status = "ok"

\* mutant: create_organized_filename does not classify
detect_calls_once(f, add_metadata_to_filename, classified, named) ==
    IF classified THEN 1 ELSE 0

\* detect_file_type calls of one iteration: one in the loop when the
\* iteration got there (classified), one more in create_organized_filename,
\* when the iteration got to the file name (named), for a name without
\* extension
detect_calls(f, add_metadata_to_filename, classified, named) ==
    (IF classified THEN 1 ELSE 0)
    + (IF named /\ add_metadata_to_filename /\ suffix(f.name) = <<>>
       THEN 1 ELSE 0)

(***************************************************************************)
(* The inputs: source files of the organizing runs.                        *)
(***************************************************************************)
NoProbe == [ok |-> FALSE, w |-> 0, h |-> 0, n |-> 0, fmt |-> <<>>]

PngProbe == [ok |-> TRUE, w |-> 16, h |-> 9, n |-> 0, fmt |-> <<"P", "N", "G">>]

LinesProbe == [ok |-> TRUE, w |-> 0, h |-> 0, n |-> 3, fmt |-> <<>>]

SubDir(d) == path_join(input_folder, <<d>>)

\* in/a/x.png and in/b/x.png: two PNG images of the same name and size
F_ax == [dir |-> SubDir("a"), name |-> <<"x", ".", "p", "n", "g">>, status |-> "ok",
         content |-> <<137, 80, 78, 71, 13, 10, 26, 10, 0, 0>>, probe |-> PngProbe]

F_bx == [dir |-> SubDir("b"), name |-> <<"x", ".", "p", "n", "g">>, status |-> "ok",
         content |-> <<137, 80, 78, 71, 13, 10, 26, 10, 0, 0>>, probe |-> PngProbe]

\* in/b/x_1.png: a PNG the image decoder cannot read, named like a renamed duplicate
F_bx1 == [dir |-> SubDir("b"), name |-> <<"x", "_", "1", ".", "p", "n", "g">>, status |-> "ok",
          content |-> <<137, 80, 78, 71, 13, 10, 26, 10, 0, 0>>, probe |-> NoProbe]

\* in/n: a PDF without an extension
F_n == [dir |-> input_folder, name |-> <<"n">>, status |-> "ok",
        content |-> <<37, 80, 68, 70, 45, 49>>, probe |-> NoProbe]

\* in/...: a text file whose name is three dots
F_dots == [dir |-> input_folder, name |-> <<".", ".", ".">>, status |-> "ok",
           content |-> <<104, 105, 10>>, probe |-> NoProbe]

\* in/t.TXT: three lines of text
F_t == [dir |-> input_folder, name |-> <<"t", ".", "T", "X", "T">>, status |-> "ok",
        content |-> <<97, 10, 98, 10, 99, 10>>, probe |-> LinesProbe]

\* in/a/r: no extension, and the process may not read it
F_r == [dir |-> SubDir("a"), name |-> <<"r">>, status |-> "denied",
        content |-> <<>>, probe |-> NoProbe]

SourceFiles == {F_ax, F_bx, F_bx1, F_n, F_dots, F_t, F_r}

\* os.walk is top-down: the files of input_folder itself come first, and the
\* files of one directory are listed together; no path occurs twice
WalkOrdered(t) ==
    /\ \A i, j \in 1..Len(t) : i < j => file_path(t[i]) # file_path(t[j])
    /\ \A i, j \in 1..Len(t) :
          i < j => ~(t[i].dir # input_folder /\ t[j].dir = input_folder)
    /\ \A i, j, k \in 1..Len(t) :
          (i < k /\ k < j /\ t[i].dir = t[j].dir) => t[k].dir = t[i].dir

Trees ==
    {t \in UNION {[1..n -> SourceFiles] : n \in 0..MaxFiles} : WalkOrdered(t)}

Options ==
    [organize_by_type : BOOLEAN, add_metadata_to_filename : BOOLEAN]

(***************************************************************************)
(* The organizing runs as a state machine.                                 *)
(***************************************************************************)
ClassifierIdle ==
    /\ cfile = F_n
    /\ cres = Raise(<<>>)
    /\ cpc = "off"

\* the widgets before and after FileOrganizerGUI.__init__ / setup_gui
NoGui ==
    [window |-> "none", processing |-> FALSE, start_button |-> "normal",
     stop_button |-> "disabled", status |-> "Ready", dialog |-> "none"]

NewGui == [NoGui EXCEPT !.window = "open"]

\* process_and_organize_files called by a script: no window, no callback,
\* no logger, on an input folder that is a readable directory
DirectCall ==
    /\ root = "ok"
    /\ progress_callback = "none"
    /\ logger = FALSE
    /\ gui = NoGui
    /\ workers = <<>>
    /\ stop_at = -1

PipelineStart ==
    /\ dest = <<>>
    /\ dirs = {}
    /\ pc = "idle"
    /\ run = 0
    /\ files = <<>>
    /\ idx = 0
    /\ results = EmptyResults
    /\ plan = <<>>
    /\ detects = 0
    /\ faults = 0
    /\ snap = <<>>

Init ==
    /\ ClassifierIdle
    /\ tree \in Trees
    /\ opts \in Options
    /\ PipelineStart
    /\ DirectCall

\* the threads at position `from` moved to position `to`
worker_step(from, to) ==
    IF workers = <<>> THEN workers
    ELSE [w \in DOMAIN workers |-> IF workers[w] = from THEN to ELSE workers[w]]

\* the folders a run writes into, in the order os.walk lists them here
FolderOrder ==
    <<output_folder,
      path_join(output_folder, <<"Images">>),
      path_join(output_folder, <<"Documents">>),
      path_join(output_folder, <<"Videos">>),
      path_join(output_folder, <<"Audio">>),
      path_join(output_folder, <<"Archives">>),
      path_join(output_folder, <<"Executables">>),
      path_join(output_folder, <<"Other">>),
      path_join(output_folder, <<"Error">>)>>

RECURSIVE Flatten(_, _)
Flatten(p, r) == IF r > Len(p) THEN <<>> ELSE p[r] \o Flatten(p, r + 1)

\* the file that the iteration e left at its destination path: a copy of
\* the source file, or the first part of one when copy2 failed while writing
file_written(e) ==
    [e.file EXCEPT !.dir = SubSeq(e.dest_path, 1, rfind(e.dest_path, "/") - 1),
                   !.name = basename(e.dest_path),
                   !.content = IF e.copied THEN @ ELSE Take(@, Len(@) \div 2)]

\* the files written into folder d by the iterations es[k], es[k + 1], ...
RECURSIVE WrittenIn(_, _, _)
WrittenIn(es, d, k) ==
    IF k > Len(es) THEN <<>>
    ELSE (IF es[k].written /\ dirname(es[k].dest_path) = d
          THEN <<file_written(es[k])>> ELSE <<>>)
         \o WrittenIn(es, d, k + 1)

RECURSIVE OutputFilesFrom(_, _)
OutputFilesFrom(es, i) ==
    IF i > Len(FolderOrder) THEN <<>>
    ELSE WrittenIn(es, FolderOrder[i], 1) \o OutputFilesFrom(es, i + 1)

\* the files under output_folder, folder by folder, after the iterations
\* recorded in p (nothing else writes there, and nothing is overwritten)
OutputFiles(p) == OutputFilesFrom(Flatten(p, 1), 1)

\* what os.walk(input_folder) lists, top-down: the source files, and, when
\* input_folder is a folder that holds output_folder as well
\* ("holds_output"), the files under output_folder after them
os_walk(status, t, p) ==
    IF status = "holds_output" THEN t \o OutputFiles(p) ELSE t

\* os.walk(input_folder): nothing is yielded for a folder that is missing,
\* is not a directory or cannot be listed (onerror is None)
get_all_files_from_folder(status, t) ==
    IF status \in {"ok", "holds_output"} THEN t ELSE <<>>

\* mutant: the loop runs over the os.walk generator, not over a list
enumerated_lazily(listed, now) == now

\* "for i, file_path in enumerate(files)": files is the list built before
\* the loop; what os.walk would list now is not looked at
enumerated(listed, now) == listed

\* the head of process_and_organize_files: results created, the tree scanned;
\* called by a script, or by the worker thread of the window
BeginRun ==
    /\ pc \in {"idle", "returned", "raised"}
    /\ run < MaxRuns
    /\ \/ gui.window = "none"
       \/ gui.window = "open" /\ \E w \in DOMAIN workers : workers[w] = "call"
    /\ workers' = worker_step("call", "loop")
    /\ run' = run + 1
    /\ files' = get_all_files_from_folder(root, os_walk(root, tree, plan))
    /\ results' = [EmptyResults EXCEPT !.total_files = Len(files')]
    /\ idx' = 0
    /\ plan' = Append(plan, <<>>)
    /\ detects' = 0
    /\ pc' = "processing"
    /\ UNCHANGED <<tree, opts, dest, dirs, faults, snap>>
    /\ UNCHANGED <<root, progress_callback, logger, gui, stop_at>>
    /\ UNCHANGED classifierVars

\* mutant: shutil.move where shutil.copy2 is meant
source_after_move(f, entry) ==
    IF entry.copied THEN [f EXCEPT !.status = "missing"] ELSE f

\* the source file after the iteration: shutil.copy2 opens it for reading
\* only, and no other call of the loop writes
source_after_copy(f, entry) == f

\* mutant: the callback is called at the end of the iteration
progress_calls_after(callback, i, total, f, res) ==
    IF callback = "none" THEN <<>>
    ELSE <<[i |-> i + 1, total |-> total, filename |-> basename(file_path(f)),
            finished |-> res.processed_files + Len(res.errors) + 1]>>

\* progress_callback(i + 1, len(files), os.path.basename(file_path)), the
\* first statement of the iteration on files[i]: the calls the iteration
\* makes, each with its arguments and the number of files whose iteration
\* had finished when it was made
progress_calls(callback, i, total, f, res) ==
    IF callback = "none" THEN <<>>
    ELSE <<[i |-> i + 1, total |-> total, filename |-> basename(file_path(f)),
            finished |-> res.processed_files + Len(res.errors)]>>

\* the state after an iteration that computed v
Visited(v) ==
    /\ tree' = [k \in DOMAIN tree |->
                  IF file_path(tree[k]) = v.entry.src
                  THEN source_after_copy(tree[k], v.entry)
                  ELSE tree[k]]
    /\ dest' = v.dest
    /\ dirs' = v.dirs
    /\ results' = v.results
    /\ plan' = [plan EXCEPT ![run] =
                   Append(@, v.entry @@
                             [file |-> files[idx + 1],
                              calls |-> progress_calls(progress_callback, idx,
                                                       Len(files),
                                                       files[idx + 1],
                                                       results)])]
    /\ detects' = detect_calls(files[idx + 1], opts.add_metadata_to_filename,
                               progress_callback # "raises",
                               v.entry.candidate # <<>>)

\* mutant: the loop never gets to the last file of the list
has_next_but_last(i, listed) == i + 1 < Len(listed)

\* enumerate(files) has an element left after i iterations
has_next(i, listed) == i < Len(listed)

\* one iteration of "for i, file_path in enumerate(files)"
ProcessFile ==
    /\ pc = "processing"
    /\ has_next(idx, files)
    /\ \E fault \in Faults :
          /\ fault # "none" =>
                /\ faults < MaxFaults
                /\ progress_callback # "raises"
                /\ fault_applies(files[idx + 1], fault, opts.organize_by_type, dirs)
          /\ Visited(visit_called(files[idx + 1], fault, progress_callback,
                                  opts.organize_by_type,
                                  opts.add_metadata_to_filename,
                                  dest, dirs, results))
          /\ faults' = IF fault = "none" THEN faults ELSE faults + 1
    /\ idx' = idx + 1
    /\ files' = enumerated(files, get_all_files_from_folder(
                                     root, os_walk(root, tree, plan')))
    /\ UNCHANGED <<opts, pc, run, snap>>
    /\ UNCHANGED appVars
    /\ UNCHANGED classifierVars

\* "return results" after the loop (in src/main.py after the summary log
\* was written)
ReturnResults ==
    /\ pc = "processing"
    /\ idx = Len(files)
    /\ pc' = "returned"
    /\ snap' = Append(snap, dest)
    /\ workers' = worker_step("loop", "report")
    /\ UNCHANGED <<tree, opts, dest, dirs, run, files, idx, results, plan,
                   detects, faults>>
    /\ UNCHANGED <<root, progress_callback, logger, gui, stop_at>>
    /\ UNCHANGED classifierVars

Next == BeginRun \/ ProcessFile \/ ReturnResults

Spec == Init /\ [][Next]_vars

(***************************************************************************)
(* The runs on one file of each probed category, with a decoder that       *)
(* reads the file and with one that fails on it.                           *)
(***************************************************************************)
VideoProbe == [ok |-> TRUE, w |-> 16, h |-> 9, n |-> 30, fmt |-> <<>>]

AudioProbe == [ok |-> TRUE, w |-> 5, h |-> 0, n |-> 128, fmt |-> <<>>]

ProbeFile(name, content, probe) ==
    [dir |-> input_folder, name |-> name, status |-> "ok",
     content |-> content, probe |-> probe]

\* files of the categories no decoder is called for: a.zip (Archives), e.exe
\* (Executables), o.dat (Other) and q.png, which the process may not read
\* (Error); the first three are images too, as far as the image decoder goes
UnprobedFiles ==
    {ProbeFile(<<"a", ".", "z", "i", "p">>, <<80, 75, 5, 6, 0>>, p) :
        p \in {PngProbe, NoProbe}}
    \cup {ProbeFile(<<"e", ".", "e", "x", "e">>, <<77, 90, 144, 0>>, p) :
        p \in {PngProbe, NoProbe}}
    \cup {ProbeFile(<<"o", ".", "d", "a", "t">>, <<1, 2, 3>>, p) :
        p \in {PngProbe, NoProbe}}
    \cup {[ProbeFile(<<"q", ".", "p", "n", "g">>, <<>>, PngProbe)
             EXCEPT !.status = "denied"]}

\* p.png, v.mp4, s.mp3, d.pdf and t.txt, and the files above
ProbeFiles ==
    {ProbeFile(<<"p", ".", "p", "n", "g">>, <<137, 80, 78, 71, 13, 10, 26, 10, 0>>, p) :
        p \in {PngProbe, NoProbe}}
    \cup {ProbeFile(<<"v", ".", "m", "p", "4">>, <<0, 0, 0, 24, 102, 116, 121, 112, 109, 112, 52, 50>>, p) :
        p \in {VideoProbe, NoProbe}}
    \cup {ProbeFile(<<"s", ".", "m", "p", "3">>, <<73, 68, 51, 4, 0>>, p) :
        p \in {AudioProbe, NoProbe}}
    \cup {ProbeFile(<<"d", ".", "p", "d", "f">>, <<37, 80, 68, 70, 45, 49>>, p) :
        p \in {LinesProbe, NoProbe}}
    \cup {ProbeFile(<<"t", ".", "t", "x", "t">>, <<97, 10, 98, 10, 99, 10>>, p) :
        p \in {LinesProbe, NoProbe}}
    \cup UnprobedFiles

InitProbe ==
    /\ ClassifierIdle
    /\ tree \in {<<f>> : f \in ProbeFiles}
    /\ opts \in Options
    /\ PipelineStart
    /\ DirectCall

SpecProbe == InitProbe /\ [][Next]_vars

(***************************************************************************)
(* The application: the window of FileOrganizerGUI, its Start and Stop     *)
(* buttons, the worker thread, the callbacks and the logger of src/main.py.*)
(***************************************************************************)
\* self.logger.create_summary_log(results) after the loop, outside every
\* try: open() of the summary file raises (log directory not writable, disk
\* full) and the exception leaves process_and_organize_files
SummaryLogFails ==
    /\ pc = "processing"
    /\ idx = Len(files)
    /\ logger
    /\ faults < MaxFaults
    /\ faults' = faults + 1
    /\ pc' = "raised"
    /\ snap' = Append(snap, dest)
    /\ workers' = worker_step("loop", "report")
    /\ UNCHANGED <<tree, opts, dest, dirs, run, files, idx, results, plan,
                   detects>>
    /\ UNCHANGED <<root, progress_callback, logger, gui, stop_at>>
    /\ UNCHANGED classifierVars

\* FileOrganizerGUI.start_processing, the command of the Start button
StartClick ==
    /\ gui.window = "open"
    /\ gui.start_button = "normal"
    /\ Len(workers) < MaxRuns
    /\ \/ /\ root = "missing"
          /\ gui' = [gui EXCEPT !.dialog = "Input folder does not exist"]
          /\ UNCHANGED <<dirs, workers, stop_at, faults>>
       \/ /\ root # "missing"
          /\ output_folder \notin dirs
          /\ faults < MaxFaults
          /\ faults' = faults + 1
          /\ gui' = [gui EXCEPT !.dialog = "callback exception"]
          /\ UNCHANGED <<dirs, workers, stop_at>>
       \/ /\ root # "missing"
          /\ dirs' = dirs \cup {output_folder}
          /\ gui' = [gui EXCEPT !.processing = TRUE,
                                !.start_button = "disabled",
                                !.stop_button = "normal"]
          /\ workers' = Append(workers, "call")
          /\ stop_at' = -1
          /\ UNCHANGED faults
    /\ UNCHANGED <<tree, opts, dest, pc, run, files, idx, results, plan,
                   detects, snap>>
    /\ UNCHANGED <<root, progress_callback, logger>>
    /\ UNCHANGED classifierVars

\* FileOrganizerGUI.stop_processing, the command of the Stop button
StopClick ==
    /\ gui.window = "open"
    /\ gui.stop_button = "normal"
    /\ gui' = [gui EXCEPT !.processing = FALSE,
                          !.status = "Processing stopped"]
    /\ stop_at' = IF pc = "processing" /\ idx < Len(files) /\ stop_at = -1
                  THEN idx ELSE stop_at
    /\ UNCHANGED <<root, progress_callback, logger, workers>>
    /\ UNCHANGED pipelineVars
    /\ UNCHANGED classifierVars

\* process_files after the call: the try block's report, or the except branch
WorkerReport ==
    /\ gui.window = "open"
    /\ \E w \in DOMAIN workers : workers[w] = "report"
    /\ gui' = IF pc = "raised"
              THEN [gui EXCEPT !.dialog = "An error occurred"]
              ELSE [gui EXCEPT !.status = "Processing completed successfully!",
                               !.dialog = "Success"]
    /\ workers' = worker_step("report", "finally")
    /\ UNCHANGED <<root, progress_callback, logger, stop_at>>
    /\ UNCHANGED pipelineVars
    /\ UNCHANGED classifierVars

\* finally: self.processing = False; self.start_button.config(state='normal')
FinallyEnableStart ==
    /\ gui.window = "open"
    /\ \E w \in DOMAIN workers : workers[w] = "finally"
    /\ gui' = [gui EXCEPT !.processing = FALSE, !.start_button = "normal"]
    /\ workers' = worker_step("finally", "l583")
    /\ UNCHANGED <<root, progress_callback, logger, stop_at>>
    /\ UNCHANGED pipelineVars
    /\ UNCHANGED classifierVars

\* finally, continued: self.stop_button.config(state='disabled') and the
\* progress bar reset; the thread ends
FinallyDisableStop ==
    /\ gui.window = "open"
    /\ \E w \in DOMAIN workers : workers[w] = "l583"
    /\ gui' = [gui EXCEPT !.stop_button = "disabled"]
    /\ workers' = worker_step("l583", "done")
    /\ UNCHANGED <<root, progress_callback, logger, stop_at>>
    /\ UNCHANGED pipelineVars
    /\ UNCHANGED classifierVars

\* what a thread that is killed while it copies f leaves behind: the
\* destination file of the iteration, partly written
killed_in_copy(v, f, fs) ==
    IF v.entry.planned /\ v.entry.written
    THEN write_file(fs, v.entry.dest_path, f, FALSE)
    ELSE fs

\* the window is closed: root.mainloop() returns, main() returns and the
\* interpreter exits without waiting for the daemon threads; a worker is
\* cut where it is, between two files or inside shutil.copy2
CloseWindow ==
    /\ gui.window = "open"
    /\ gui' = [gui EXCEPT !.window = "closed"]
    /\ workers' = [w \in DOMAIN workers |->
                     IF workers[w] = "done" THEN "done" ELSE "killed"]
    /\ pc' = IF pc = "processing" THEN "killed" ELSE pc
    /\ \/ UNCHANGED <<dest, dirs>>
       \/ /\ pc = "processing"
          /\ idx < Len(files)
          /\ dest' = killed_in_copy(
                        visit_called(files[idx + 1], "none", progress_callback,
                                     opts.organize_by_type,
                                     opts.add_metadata_to_filename,
                                     dest, dirs, results),
                        files[idx + 1], dest)
          /\ dest' # dest
          /\ dirs' = visit_called(files[idx + 1], "none", progress_callback,
                                  opts.organize_by_type,
                                  opts.add_metadata_to_filename,
                                  dest, dirs, results).dirs
    /\ UNCHANGED <<tree, opts, run, files, idx, results, plan, detects,
                   faults, snap>>
    /\ UNCHANGED <<root, progress_callback, logger, stop_at>>
    /\ UNCHANGED classifierVars

\* the files of the application runs: two images of the same name and a
\* file the process may not read
AppFiles == {F_ax, F_bx, F_r}

AppTrees == {t \in Trees : \A k \in 1..Len(t) : t[k] \in AppFiles}

RootStatuses == {"ok", "missing", "file", "denied"}

\* a script calling process_and_organize_files, or the window just opened
\* (whose process_files passes self.update_progress as the callback)
InitApp ==
    /\ ClassifierIdle
    /\ PipelineStart
    /\ opts \in Options
    /\ root \in RootStatuses
    /\ tree \in AppTrees
    /\ root # "ok" => tree = <<>>
    /\ logger \in BOOLEAN
    /\ gui \in {NoGui, NewGui}
    /\ progress_callback \in {"none", "returns", "raises"}
    /\ gui.window = "open" => progress_callback # "none"
    /\ workers = <<>>
    /\ stop_at = -1

NextApp ==
    \/ BeginRun
    \/ ProcessFile
    \/ ReturnResults
    \/ SummaryLogFails
    \/ StartClick
    \/ StopClick
    \/ WorkerReport
    \/ FinallyEnableStart
    \/ FinallyDisableStop
    \/ CloseWindow

SpecApp == InitApp /\ [][NextApp]_vars

(***************************************************************************)
(* The runs of a script that passes a progress callback, one that returns  *)
(* or one that raises.                                                     *)
(***************************************************************************)
InitCall ==
    /\ ClassifierIdle
    /\ tree \in AppTrees
    /\ opts \in Options
    /\ PipelineStart
    /\ root = "ok"
    /\ progress_callback \in {"none", "returns", "raises"}
    /\ logger = FALSE
    /\ gui = NoGui
    /\ workers = <<>>
    /\ stop_at = -1

SpecCall == InitCall /\ [][Next]_vars

\* a step of the for loop, as far as the loop index shows it: within Next
\* the steps that advance idx are the steps of ProcessFile, and ProcessFile
\* is enabled whenever a file is left (no fault need be injected)
LoopAdvances ==
    /\ pc = "processing"
    /\ has_next(idx, files)
    /\ idx' = idx + 1

\* the same runs, the caller's thread being scheduled: the loop takes its
\* next iteration and the function executes its return statement
SpecLive ==
    /\ InitCall
    /\ [][Next]_vars
    /\ WF_idx(LoopAdvances)
    /\ WF_vars(ReturnResults)

(***************************************************************************)
(* The runs on an input folder that holds the output folder: from the      *)
(* second run on, os.walk lists the copies of the earlier runs as well.    *)
(* No fault is injected in these runs (the budget is spent).               *)
(***************************************************************************)
InitNested ==
    /\ ClassifierIdle
    /\ tree \in AppTrees
    /\ opts \in Options
    /\ dest = <<>>
    /\ dirs = {}
    /\ pc = "idle"
    /\ run = 0
    /\ files = <<>>
    /\ idx = 0
    /\ results = EmptyResults
    /\ plan = <<>>
    /\ detects = 0
    /\ faults = MaxFaults
    /\ snap = <<>>
    /\ root = "holds_output"
    /\ progress_callback = "none"
    /\ logger = FALSE
    /\ gui = NoGui
    /\ workers = <<>>
    /\ stop_at = -1

SpecNested == InitNested /\ [][Next]_vars

(***************************************************************************)
(* The classifier on its own: detect_file_type applied to one file after   *)
(* another, the file drawn from names x contents x statuses.               *)
(***************************************************************************)
ClassifyNames == {
    <<"a", ".", "j", "p", "g">>,
    <<"A", ".", "J", "P", "G">>,
    <<"a", ".", "w", "a", "v">>,
    <<"a", ".", "z", "i", "p">>,
    <<"a", ".", "D", "o", "c", "x">>,
    <<"a">>,
    <<"a", ".">>,
    <<".", ".", ".">>,
    <<".", "p", "n", "g">>,
    <<"a", ".", "t", "a", "r", ".", "g", "z">>,
    <<"a", ".", "x", "y", "z">>,
    <<"b", ".", "P", "d", "F">>}

Prefixes(s) == {SubSeq(s, 1, k) : k \in 0..Len(s)}

\* every signature, every proper prefix of one (short files, the empty file
\* among them), every signature followed by more bytes, and a few others
ClassifyContents ==
    UNION {Prefixes(signatures[i].sig) : i \in 1..Len(signatures)}
    \cup {signatures[i].sig \o <<0, 1>> : i \in 1..Len(signatures)}
    \cup {signatures[i].sig \o <<3, 4>> : i \in 1..Len(signatures)}
    \cup {<<80, 75, 5, 6>>, <<82, 73, 70, 70, 36, 0, 0, 0, 87, 65, 86, 69, 102, 109, 116, 32>>, <<104, 101, 108, 108, 111, 10>>,
          <<0, 0, 0, 24>> \o <<102, 116, 121, 112, 104, 101, 105, 99>>,
          <<255, 216, 255, 224, 0, 1, 2, 3, 4, 5, 6, 7, 8, 9, 10, 11, 12, 13, 14, 15, 16, 17, 18, 19, 20, 21, 22, 23, 24, 25, 26, 27, 28, 29, 30, 31, 32, 33, 34, 35, 36, 37, 38, 39>>}

ClassifyInputs ==
    [dir : {input_folder}, name : ClassifyNames, status : Statuses,
     content : ClassifyContents, probe : {NoProbe}]

PipelineIdle ==
    /\ tree = <<>>
    /\ opts = [organize_by_type |-> TRUE, add_metadata_to_filename |-> TRUE]
    /\ dest = <<>>
    /\ dirs = {}
    /\ pc = "off"
    /\ run = 0
    /\ files = <<>>
    /\ idx = 0
    /\ results = EmptyResults
    /\ plan = <<>>
    /\ detects = 0
    /\ faults = 0
    /\ snap = <<>>
    /\ DirectCall

InitClassify ==
    /\ PipelineIdle
    /\ cfile \in ClassifyInputs
    /\ cres = Raise(<<>>)
    /\ cpc = "ready"

\* the call category, format_type, detection_method = detect_file_type(path)
Classify ==
    /\ cpc = "ready"
    /\ cres' = detect_file_type(cfile)
    /\ cpc' = "done"
    /\ UNCHANGED cfile
    /\ UNCHANGED pipelineVars
    /\ UNCHANGED appVars

NextClassify == Classify

SpecClassify == InitClassify /\ [][NextClassify]_vars

(***************************************************************************)
(* The classifier of src/main.py, which logs what it detected through the  *)
(* FileLogger of the FileProcessor, when it has one.  `failing` says where *)
(* a call of the logger raises: "try" for log_file_detection before the    *)
(* return statements, "except" for log_main in the except branch.          *)
(***************************************************************************)
detect_file_type_main(f, attached, failing) ==
    LET r == detect_try(f)
        body == IF r.kind = "return" /\ attached /\ "try" \in failing
                THEN Raise(<<"logger failed">>)
                ELSE r
    IN  IF body.kind = "raise"
        THEN IF attached /\ "except" \in failing
             THEN Raise(<<"logger failed">>)
             ELSE Return("Error", body.format, "error")
        ELSE body

InitClassifyMain ==
    /\ tree = <<>>
    /\ opts = [organize_by_type |-> TRUE, add_metadata_to_filename |-> TRUE]
    /\ PipelineStart
    /\ root = "ok"
    /\ progress_callback = "none"
    /\ logger \in BOOLEAN
    /\ gui = NoGui
    /\ workers = <<>>
    /\ stop_at = -1
    /\ cfile \in ClassifyInputs
    /\ cres = Raise(<<>>)
    /\ cpc = "ready"

\* the call self.detect_file_type(file_path) of src/main.py
ClassifyMain ==
    /\ cpc = "ready"
    /\ \E failing \in SUBSET {"try", "except"} :
          /\ ~logger => failing = {}
          /\ cres' = detect_file_type_main(cfile, logger, failing)
    /\ cpc' = "done"
    /\ UNCHANGED cfile
    /\ UNCHANGED pipelineVars
    /\ UNCHANGED appVars

NextClassifyMain == ClassifyMain

SpecClassifyMain == InitClassifyMain /\ [][NextClassifyMain]_vars

(***************************************************************************)
(* Properties of the classifier, checked under SpecClassify.               *)
(***************************************************************************)
Categories ==
    {"Images", "Documents", "Videos", "Audio", "Archives", "Executables",
     "Other", "Error"}

Methods == {"magic_bytes", "file_extension", "unknown", "error"}

\* s is a prefix of h
IsPrefix(s, h) == Len(s) <= Len(h) /\ \A k \in 1..Len(s) : h[k] = s[k]

\* the bytes detect_file_type looks at: the first 32 of the file
Header == SubSeq(cfile.content, 1, IF Len(cfile.content) < 32 THEN Len(cfile.content) ELSE 32)

Classified == cpc = "done"

Readable == cfile.status = "ok"

NoSignature == \A i \in 1..Len(signatures) : ~IsPrefix(signatures[i].sig, Header)

\* str(e) of the exception each unusable file raises
ExpectedErrorText ==
    CASE cfile.status = "missing" ->
            <<"[Errno 2] No such file or directory: '", "in", "/">> \o cfile.name \o <<"'">>
      [] cfile.status = "denied" ->
            <<"[Errno 13] Permission denied: '", "in", "/">> \o cfile.name \o <<"'">>
      [] cfile.status = "isdir" ->
            <<"[Errno 21] Is a directory: '", "in", "/">> \o cfile.name \o <<"'">>
      [] OTHER -> <<"[Errno 5] Input/output error">>

\* C1: detect_file_type never raises: for a missing file, an unreadable
\* file, a directory, a file whose read fails and a file of any length and
\* content it returns a (category, format, method) triple, and whenever
\* getsize, open or read fails the triple is ('Error', str(e), 'error').
C1_DetectNeverFails ==
    Classified =>
        /\ cres.kind = "return"
        /\ cres.category \in Categories
        /\ cres.method \in Methods
        /\ ~Readable =>
              /\ cres.category = "Error"
              /\ cres.method = "error"
              /\ cres.format = ExpectedErrorText
        /\ Readable => cres.category # "Error" /\ cres.method # "error"

C1_Witness ==
    /\ Classified
    /\ cfile.status = "denied"
    /\ cres.kind = "return"
    /\ cres.category = "Error"
    /\ cres.format = ExpectedErrorText

SigPK == <<80, 75>>

SigPK34 == <<80, 75, 3, 4>>

SigRIFF == <<82, 73, 70, 70>>

\* C2, as claimed: for every table entry, a readable file whose first bytes
\* equal the entry's prefix is classified as that entry says, with method
\* magic_bytes, whatever its extension.
C2_EveryEntryWins ==
    (Classified /\ Readable) =>
        \A i \in 1..Len(signatures) :
            IsPrefix(signatures[i].sig, Header) =>
                /\ cres.method = "magic_bytes"
                /\ cres.category = signatures[i].category
                /\ cres.format = signatures[i].format

\* C2, amended: a readable file whose first bytes equal an entry's prefix is
\* classified by magic_bytes whatever its extension, and as that entry says,
\* except for the entry PK (Archives, zip) when the file starts with
\* PK 03 04: that file is (Documents, office), the earlier entry.
C2_EntryWinsUnlessShadowed ==
    (Classified /\ Readable) =>
        \A i \in 1..Len(signatures) :
            IsPrefix(signatures[i].sig, Header) =>
                /\ cres.method = "magic_bytes"
                /\ \/ /\ cres.category = signatures[i].category
                      /\ cres.format = signatures[i].format
                   \/ /\ signatures[i].sig = SigPK
                      /\ IsPrefix(SigPK34, Header)
                      /\ cres.category = "Documents"
                      /\ cres.format = <<"o", "f", "f", "i", "c", "e">>

\* PK 03 04 in a file named a.wav: (Documents, office) by magic_bytes
C2_Witness ==
    /\ Classified
    /\ Readable
    /\ cfile.name = <<"a", ".", "w", "a", "v">>
    /\ IsPrefix(SigPK34, Header)
    /\ cres.method = "magic_bytes"
    /\ cres.category = "Documents"

\* C3: when several signatures are prefixes of the header the entry declared
\* first is returned: PK 03 04 is (Documents, office), PK without 03 04 is
\* (Archives, zip), RIFF is (Videos, webp) even in a file named *.wav.
C3_FirstDeclaredWins ==
    (Classified /\ Readable) =>
        /\ \A i \in 1..Len(signatures) :
              (/\ IsPrefix(signatures[i].sig, Header)
               /\ \A j \in 1..(i - 1) : ~IsPrefix(signatures[j].sig, Header)) =>
                  /\ cres.method = "magic_bytes"
                  /\ cres.category = signatures[i].category
                  /\ cres.format = signatures[i].format
        /\ IsPrefix(SigPK34, Header) =>
              cres.category = "Documents" /\ cres.format = <<"o", "f", "f", "i", "c", "e">>
        /\ (IsPrefix(SigPK, Header) /\ ~IsPrefix(SigPK34, Header)) =>
              cres.category = "Archives" /\ cres.format = <<"z", "i", "p">>
        /\ IsPrefix(SigRIFF, Header) =>
              cres.category = "Videos" /\ cres.format = <<"w", "e", "b", "p">>

C3_Witness ==
    /\ Classified
    /\ Readable
    /\ cfile.name = <<"a", ".", "w", "a", "v">>
    /\ IsPrefix(SigRIFF, Header)
    /\ Len(Header) > 4
    /\ cres.category = "Videos"
    /\ cres.format = <<"w", "e", "b", "p">>

\* what the extension table says of the names of ClassifyNames
ExpectedByExtension ==
    CASE cfile.name \in {<<"a", ".", "j", "p", "g">>, <<"A", ".", "J", "P", "G">>} ->
            <<"Images", <<"j", "p", "g">>>>
      [] cfile.name = <<"a", ".", "w", "a", "v">> -> <<"Audio", <<"w", "a", "v">>>>
      [] cfile.name = <<"a", ".", "z", "i", "p">> -> <<"Archives", <<"z", "i", "p">>>>
      [] cfile.name = <<"a", ".", "D", "o", "c", "x">> -> <<"Documents", <<"d", "o", "c", "x">>>>
      [] cfile.name = <<"a", ".", "t", "a", "r", ".", "g", "z">> -> <<"Archives", <<"g", "z">>>>
      [] cfile.name = <<"b", ".", "P", "d", "F">> -> <<"Documents", <<"p", "d", "f">>>>
      [] OTHER -> <<"Other", UNKNOWN>>

KnownExtension == ExpectedByExtension[1] # "Other"

\* C4: a readable file whose header starts with no signature and whose
\* extension, compared case-insensitively, is in SUPPORTED_FORMATS is
\* classified by file_extension, in the category listing the extension, with
\* the lowercased extension without its dot as format.
C4_ExtensionFallback ==
    (Classified /\ Readable /\ NoSignature /\ KnownExtension) =>
        /\ cres.kind = "return"
        /\ cres.method = "file_extension"
        /\ cres.category = ExpectedByExtension[1]
        /\ cres.format = ExpectedByExtension[2]
        /\ \E c \in 1..Len(SUPPORTED_FORMATS) :
              /\ SUPPORTED_FORMATS[c].category = cres.category
              /\ <<".">> \o cres.format \in SUPPORTED_FORMATS[c].extensions

C4_Witness ==
    /\ Classified
    /\ Readable
    /\ NoSignature
    /\ Header # <<>>
    /\ cfile.name = <<"A", ".", "J", "P", "G">>
    /\ cres.method = "file_extension"
    /\ cres.category = "Images"
    /\ cres.format = <<"j", "p", "g">>

\* C5, as claimed: a zero-byte file, whatever its name, is classified
\* without an exception as Other or Error, by method unknown or error.
C5_EmptyFileOtherOrError ==
    (Classified /\ cfile.content = <<>>) =>
        /\ cres.kind = "return"
        /\ cres.category \in {"Other", "Error"}
        /\ cres.method \in {"unknown", "error"}

\* C5, amended: a zero-byte file is classified without an exception, never
\* by magic_bytes: ('Error', text, 'error') when it cannot be read; by its
\* extension (method file_extension) when the extension is a supported one;
\* ('Other', 'unknown', 'unknown') otherwise.
C5_EmptyFileByExtension ==
    (Classified /\ cfile.content = <<>>) =>
        /\ cres.kind = "return"
        /\ ~Readable => cres.category = "Error" /\ cres.method = "error"
        /\ (Readable /\ KnownExtension) =>
              /\ cres.method = "file_extension"
              /\ cres.category = ExpectedByExtension[1]
              /\ cres.format = ExpectedByExtension[2]
        /\ (Readable /\ ~KnownExtension) =>
              /\ cres.method = "unknown"
              /\ cres.category = "Other"
              /\ cres.format = UNKNOWN

C5_Witness ==
    /\ Classified
    /\ Readable
    /\ cfile.content = <<>>
    /\ cfile.name = <<"a", ".", "j", "p", "g">>
    /\ cres.category = "Images"
    /\ cres.method = "file_extension"

(***************************************************************************)
(* Properties of the organizing runs, checked under Spec.                  *)
(***************************************************************************)
\* the iterations made so far, as (run, position) pairs
Visits ==
    UNION {{<<r, k>> : k \in 1..Len(plan[r])} : r \in 1..Len(plan)}

Entry(v) == plan[v[1]][v[2]]

NameOf(path) == SubSeq(path, rfind(path, "/") + 1, Len(path))

FolderOf(path) == SubSeq(path, 1, rfind(path, "/") - 1)

\* C6: no step overwrites an existing file: when shutil.copy2 is called
\* nothing exists at dest_path, and every file of the destination is still
\* there, unchanged, after every step.
C6_NeverOverwrites ==
    /\ [](\A v \in Visits : Entry(v).planned => ~Entry(v).existed)
    /\ [][\A q \in DOMAIN dest : q \in DOMAIN dest' /\ dest'[q] = dest[q]]_vars

\* the second run meets the files of the first and writes beside them
C6_Witness ==
    /\ run = 2
    /\ \E v \in Visits, q \in DOMAIN dest :
          /\ v[1] = 2
          /\ Entry(v).copied
          /\ ~Entry(v).existed
          /\ dest[q].run = 1
          /\ dest[q].src = Entry(v).src
          /\ q # Entry(v).dest_path
          /\ FolderOf(q) = FolderOf(Entry(v).dest_path)

AllCopied(r) == \A k \in 1..Len(plan[r]) : plan[r][k].copied

\* C7: two runs on the same source tree with the same options into a
\* destination that was empty, every copy succeeding: after the second run
\* the destination holds twice the files it held after the first, and the
\* files of the first run are unchanged.
C7_SecondRunDoubles ==
    (/\ Len(snap) >= 2
     /\ AllCopied(1)
     /\ AllCopied(2)) =>
        /\ Cardinality(DOMAIN snap[1]) = Len(tree)
        /\ Cardinality(DOMAIN snap[2]) = 2 * Cardinality(DOMAIN snap[1])
        /\ \A q \in DOMAIN snap[1] :
              q \in DOMAIN snap[2] /\ snap[2][q] = snap[1][q]

C7_Witness ==
    /\ Len(snap) = 2
    /\ AllCopied(1)
    /\ AllCopied(2)
    /\ Len(tree) = 2
    /\ tree[1].name = tree[2].name
    /\ Cardinality(DOMAIN snap[1]) = 2
    /\ Cardinality(DOMAIN snap[2]) = 4

\* C8, as claimed: within one run the destination paths computed for two
\* different source files are never equal, also when the copy of the earlier
\* file failed.
C8_PathsNeverEqual ==
    \A r \in 1..Len(plan) : \A k, j \in 1..Len(plan[r]) :
        (/\ k < j
         /\ plan[r][k].planned
         /\ plan[r][j].planned) => plan[r][k].dest_path # plan[r][j].dest_path

\* C8, amended: within one run the destination path computed for a file is
\* never equal to the path computed for an earlier file whose copy created
\* its destination file (so two copied files never share a path); after a
\* copy that failed before creating the file, the path is free again.
C8_PathsOfWrittenFilesDiffer ==
    \A r \in 1..Len(plan) : \A k, j \in 1..Len(plan[r]) :
        (/\ k < j
         /\ plan[r][k].written
         /\ plan[r][j].planned) => plan[r][k].dest_path # plan[r][j].dest_path

C8_Witness ==
    \E v, w \in Visits :
        /\ v[1] = w[1]
        /\ v[2] < w[2]
        /\ Entry(v).written
        /\ Entry(w).copied
        /\ Entry(v).candidate = Entry(w).candidate
        /\ Entry(v).folder = Entry(w).folder
        /\ Entry(v).dest_path # Entry(w).dest_path

\* {original stem}{extension} of a source file name, the extension taken
\* from the classification's format when the name has none
SourceStem(name) ==
    LET dot == rfind(name, ".")
    IN  IF 1 < dot /\ dot < Len(name) THEN SubSeq(name, 1, dot - 1) ELSE name

SourceExtension(name, st, format) ==
    IF st # name THEN SubSeq(name, Len(st) + 1, Len(name))
    ELSE IF format # <<>> /\ format # UNKNOWN THEN <<".">> \o format
    ELSE <<".">> \o UNKNOWN

CounterText(n) ==
    <<"_">> \o (IF n < 10 THEN <<ToString(n)>>
                ELSE <<ToString(n \div 10), ToString(n % 10)>>)

\* the plain name with the duplicate counter _n put before the extension
\* (after it when the stem consists of dots only, where os.path.splitext
\* finds no extension)
Renamed(st, ext, n) ==
    IF \E k \in 1..Len(st) : st[k] # "."
    THEN st \o CounterText(n) \o ext
    ELSE st \o ext \o CounterText(n)

PlainName(e) ==
    LET name == NameOf(e.src)
        st == SourceStem(name)
    IN  st \o SourceExtension(name, st, e.format)

PlainNameOrCounter(e) ==
    LET name == NameOf(e.src)
        st == SourceStem(name)
        ext == SourceExtension(name, st, e.format)
        got == NameOf(e.dest_path)
    IN  \/ got = st \o ext
        \/ \E n \in 1..(MaxFiles * MaxRuns) : got = Renamed(st, ext, n)

\* C9, as claimed: with add_metadata_to_filename = false every copied file
\* is named exactly {original stem}{extension}.
C9_PlainNameExactly ==
    ~opts.add_metadata_to_filename =>
        \A r \in 1..Len(plan) : \A k \in 1..Len(plan[r]) :
            plan[r][k].copied =>
                NameOf(plan[r][k].dest_path) = PlainName(plan[r][k])

\* C9, amended: with add_metadata_to_filename = false every copied file is
\* named {original stem}{extension}, or, when that name is taken in its
\* destination folder, that name with the duplicate counter _n (n >= 1);
\* no metadata token is ever part of the name.
C9_PlainNameOrCounter ==
    ~opts.add_metadata_to_filename =>
        \A r \in 1..Len(plan) : \A k \in 1..Len(plan[r]) :
            plan[r][k].copied => PlainNameOrCounter(plan[r][k])

\* two images of the same name, both decodable: x.png and x_1.png
C9_Witness ==
    /\ ~opts.add_metadata_to_filename
    /\ \E v, w \in Visits :
          /\ v[1] = w[1]
          /\ Entry(v).copied
          /\ Entry(w).copied
          /\ Entry(v).src = file_path(F_ax)
          /\ Entry(w).src = file_path(F_bx)
          /\ {NameOf(Entry(v).dest_path), NameOf(Entry(w).dest_path)}
                = {<<"x", ".", "p", "n", "g">>, <<"x", "_", "1", ".", "p", "n", "g">>}

\* C10: with organize_by_type = false every copied file is directly inside
\* output_folder and the run creates no category folder; with
\* organize_by_type = true every copied file is in output_folder/<category>.
C10_FoldersFollowOption ==
    /\ ~opts.organize_by_type => dirs \subseteq {<<"out">>}
    /\ \A r \in 1..Len(plan) : \A k \in 1..Len(plan[r]) :
          plan[r][k].copied =>
              /\ plan[r][k].dest_path \in DOMAIN dest
              /\ plan[r][k].category \in Categories
              /\ FolderOf(plan[r][k].dest_path)
                    = (IF opts.organize_by_type
                       THEN <<"out", "/", plan[r][k].category>>
                       ELSE <<"out">>)
              /\ FolderOf(plan[r][k].dest_path) \in dirs

\* files of two categories, all directly in output_folder
C10_Witness ==
    /\ ~opts.organize_by_type
    /\ dirs = {<<"out">>}
    /\ \E v, w \in Visits :
          /\ Entry(v).copied
          /\ Entry(w).copied
          /\ Entry(v).category = "Images"
          /\ Entry(w).category = "Documents"
          /\ FolderOf(Entry(v).dest_path) = <<"out">>
          /\ FolderOf(Entry(w).dest_path) = <<"out">>

\* the iterations of the current run that counted their file
Counted == {k \in 1..Len(plan[run]) : plan[run][k].copied}

\* C12: in every state of a run processed_files <= total_files, the files
\* counted in processed_files are those whose copy returned, and each of
\* them exists at the destination path computed for it, copied from it.
C12_ProcessedWithinTotal ==
    /\ results.processed_files <= results.total_files
    /\ run > 0 =>
          /\ results.processed_files = Cardinality(Counted)
          /\ \A k \in Counted :
                /\ plan[run][k].dest_path \in DOMAIN dest
                /\ dest[plan[run][k].dest_path].src = plan[run][k].src
                /\ dest[plan[run][k].dest_path].complete

\* mid-run, one file counted and one failed
C12_Witness ==
    /\ pc = "processing"
    /\ results.total_files = 2
    /\ results.processed_files = 1
    /\ Len(results.errors) = 1
    /\ \E k \in Counted : plan[run][k].dest_path \in DOMAIN dest

\* the iterations of the current run that failed, in order
FailedVisits == SelectSeq(plan[run], LAMBDA e : ~e.copied)

OnePlanOneCategory ==
    run > 0 =>
        /\ Len(plan[run]) = idx
        /\ \A k \in 1..idx :
              /\ plan[run][k].src = file_path(files[k])
              /\ plan[run][k].category = detect_file_type(files[k]).category
              /\ (plan[run][k].folder # <<>> /\ opts.organize_by_type) =>
                    plan[run][k].folder = <<"out", "/", plan[run][k].category>>
        /\ \A c \in DOMAIN results.categories :
              results.categories[c]
                 = Cardinality({k \in Counted : plan[run][k].category = c})

\* whether the file name has no extension (Path(file_path).suffix is empty)
NoExtension(e) == SourceStem(NameOf(e.src)) = NameOf(e.src)

ProbedCategories == {"Images", "Videos", "Audio", "Documents"}

\* the names constructed, with add_metadata_to_filename, for files of a
\* probed category on which the decoder failed: (run, position) pairs
FailedProbes ==
    IF ~opts.add_metadata_to_filename THEN {}
    ELSE {v \in Visits : /\ Entry(v).candidate # <<>>
                         /\ Entry(v).category \in ProbedCategories
                         /\ ~tree[v[2]].probe.ok}

\* the files that nothing stops from being copied are copied and counted
CopiedAndCounted ==
    faults = 0 =>
        /\ \A v \in Visits : tree[v[2]].status = "ok" => Entry(v).copied
        /\ run > 0 => results.processed_files = Cardinality(Counted)

DocumentToken(e) ==
    LET name == NameOf(e.src)
        st == SourceStem(name)
    IN  st \o <<"_", "d", "o", "c", "u", "m", "e", "n", "t">>
           \o SourceExtension(name, st, e.format)

\* C16, as claimed: when the decoder fails on a file of one of the four
\* probed categories the name built with add_metadata_to_filename is
\* {stem}{extension} without any token, and the file is copied and counted.
C16_FailedProbeNoToken ==
    /\ \A v \in FailedProbes : Entry(v).candidate = PlainName(Entry(v))
    /\ CopiedAndCounted

\* C16, amended: when the decoder fails, an image, video or audio file is
\* named {stem}{extension} without any token, a document is named
\* {stem}_document{extension}; in each case the file is copied and counted.
C16_FailedProbeFallbackToken ==
    /\ \A v \in FailedProbes :
          Entry(v).candidate = (IF Entry(v).category = "Documents"
                                THEN DocumentToken(Entry(v))
                                ELSE PlainName(Entry(v)))
    /\ CopiedAndCounted

\* d.pdf that PyPDF2 cannot read, copied as d_document.pdf
C16_Witness ==
    \E v \in FailedProbes :
        /\ Entry(v).copied
        /\ Entry(v).category = "Documents"
        /\ NameOf(Entry(v).dest_path)
              = <<"d", "_", "d", "o", "c", "u", "m", "e", "n", "t", ".", "p", "d", "f">>
        /\ results.processed_files = 1

(***************************************************************************)
(* Properties of the application, checked under SpecApp.                   *)
(***************************************************************************)
\* C11, as claimed: once Stop was pressed while the run was processing file
\* stop_at + 1, no later file is visited, and the run does not end as a
\* completed one.
C11_StopEndsRunAtBoundary ==
    stop_at # -1 =>
        /\ idx <= stop_at + 1
        /\ gui.status # "Processing completed successfully!"

\* C14, as claimed: a run request on an input folder that is missing, is not
\* a directory or cannot be read is rejected before scanning: no run begins,
\* nothing is created under the destination, no statistics are returned and
\* no run is reported as completed.
C14_UnusableRootRejected ==
    root # "ok" =>
        /\ pc = "idle"
        /\ run = 0
        /\ dirs = {}
        /\ snap = <<>>
        /\ gui.status # "Processing completed successfully!"

\* the worker threads whose process_files has not finished
Alive == {w \in DOMAIN workers : workers[w] \notin {"done", "killed"}}

\* C15, as claimed: at most one worker thread exists at any time, from
\* thread.start() until its process_files has finished.
C15_OneWorkerAtMost == Cardinality(Alive) <= 1

\* what the first run on `files` gives when no callback is passed and
\* nothing fails but the files themselves: the loop from file k on
RECURSIVE OutcomeWithoutCallback(_, _, _, _)
OutcomeWithoutCallback(k, fs, fsDirs, res) ==
    IF k > Len(files) THEN [dest |-> fs, results |-> res]
    ELSE LET v == visit(files[k], "none", opts.organize_by_type,
                        opts.add_metadata_to_filename, fs, fsDirs, res)
         IN  OutcomeWithoutCallback(k + 1, v.dest, v.dirs, v.results)

\* C18, as claimed: the statistics returned and the files written are the
\* same with no callback, with a callback that returns and with a callback
\* that raises (stated here for trees whose files are all readable).
C18_CallbackNeverAffectsOutcome ==
    (/\ pc = "returned"
     /\ run = 1
     /\ faults = 0
     /\ \A k \in 1..Len(files) : files[k].status = "ok") =>
        LET o == OutcomeWithoutCallback(
                    1, <<>>, {}, [EmptyResults EXCEPT !.total_files = Len(files)])
        IN  /\ results = o.results
            /\ DOMAIN dest = DOMAIN o.dest

\* C19, as claimed: when the run has ended or was terminated (completion,
\* Stop, window closed) and no copy failed by itself, every file the run
\* left in the destination is a complete copy of its source.
C19_NoPartialCopies ==
    (pc \in {"returned", "killed"} /\ faults = 0) =>
        \A q \in DOMAIN dest : dest[q].complete

\* C20, as claimed: once a run has started, process_and_organize_files
\* returns its statistics and never raises to its caller.
C20_NeverRaisesToCaller == pc # "raised"

(***************************************************************************)
(* Properties of the destination names, checked under Spec.                *)
(***************************************************************************)
\* whether the text s ends with the text t
EndsWith(s, t) ==
    Len(t) <= Len(s) /\ SubSeq(s, Len(s) - Len(t) + 1, Len(s)) = t

\* the extension the rule of C21 chooses for the file of a plan entry
ChosenExtension(e) ==
    LET name == NameOf(e.src)
    IN  SourceExtension(name, SourceStem(name), e.format)

\* C21: the name of every file a run copied ends with a non-empty extension:
\* the source file's own extension when it has one, else "." + the format
\* tag of the classification when that is non-empty and not "unknown", else
\* ".unknown"; with and without add_metadata_to_filename.
C21_ExtensionAlwaysKept ==
    \A r \in 1..Len(plan) : \A k \in 1..Len(plan[r]) :
        plan[r][k].copied =>
            /\ ChosenExtension(plan[r][k]) # <<>>
            /\ EndsWith(NameOf(plan[r][k].dest_path),
                        ChosenExtension(plan[r][k]))

\* the first free path of the sequence name.ext, name_1.ext, name_2.ext, ...
\* in `folder`, where `taken` are the paths that exist, for a candidate name
\* that ends with the extension ext
FirstFreeName(folder, candidate, ext, taken) ==
    LET base == SubSeq(candidate, 1, Len(candidate) - Len(ext))
        numbered(n) == path_join(folder, base \o CounterText(n) \o ext)
        first == CHOOSE n \in 1..(MaxFiles * MaxRuns + 1) :
                    /\ numbered(n) \notin taken
                    /\ \A m \in 1..(n - 1) : numbered(m) \in taken
    IN  IF path_join(folder, candidate) \notin taken
        THEN path_join(folder, candidate)
        ELSE numbered(first)

\* C22: the path chosen for a file is the candidate path when nothing exists
\* there, and otherwise {base}_{n}{ext} for the smallest n >= 1 that is
\* free, the counter put immediately before the file's extension and always
\* on the base of the original candidate.
C22_CounterBeforeExtension ==
    [][(pc = "processing" /\ idx' = idx + 1 /\ plan'[run][idx'].planned) =>
          plan'[run][idx'].dest_path
             = FirstFreeName(plan'[run][idx'].folder,
                             plan'[run][idx'].candidate,
                             ChosenExtension(plan'[run][idx']),
                             DOMAIN dest \cup dirs')]_vars

(***************************************************************************)
(* Properties of the metadata names, checked under SpecProbe.              *)
(***************************************************************************)
\* what the decoder of the file's category returned, nothing when the
\* category has no decoder
ProbeToken(f, category) ==
    IF category \in ProbedCategories THEN metadata_info(f, category) ELSE <<>>

\* C23: with add_metadata_to_filename = true the candidate filename is
\* {stem}_{token}{extension} exactly when the category is Images, Videos,
\* Audio or Documents and its probe returned a non-empty token other than
\* "unknown", and {stem}{extension} in every other case.
C23_TokenExactlyWhenProbed ==
    opts.add_metadata_to_filename =>
        \A v \in Visits :
            LET e == Entry(v)
                st == SourceStem(NameOf(e.src))
                token == ProbeToken(tree[v[2]], e.category)
            IN  e.candidate # <<>> =>
                    e.candidate
                       = (IF token # <<>> /\ token # UNKNOWN
                          THEN st \o <<"_">> \o token \o ChosenExtension(e)
                          ELSE st \o ChosenExtension(e))

\* v.mp4, which the video decoder reads, is named v_16x9_30fps.mp4
C23_Witness ==
    /\ opts.add_metadata_to_filename
    /\ \E v \in Visits :
          /\ Entry(v).copied
          /\ Entry(v).category = "Videos"
          /\ Entry(v).candidate
                = <<"v", "_", "1", "6", "x", "9", "_", "3", "0", "f", "p", "s",
                    ".", "m", "p", "4">>

(***************************************************************************)
(* Accounting of the visited files, checked under Spec.                    *)
(***************************************************************************)
RECURSIVE SumOver(_, _)
SumOver(counts, keys) ==
    IF keys = {} THEN 0
    ELSE LET c == CHOOSE c \in keys : TRUE
         IN  counts[c] + SumOver(counts, keys \ {c})

\* C24: after k files of the enumeration were visited,
\* processed_files + len(errors) = k and the per-category counters add up to
\* processed_files; when the run returns, processed_files + len(errors) =
\* total_files.
C24_EveryVisitCountedOnce ==
    run > 0 =>
        /\ results.processed_files + Len(results.errors) = idx
        /\ SumOver(results.categories, DOMAIN results.categories)
              = results.processed_files
        /\ pc = "returned" =>
              results.processed_files + Len(results.errors) = results.total_files

\* a run that copied two images has returned
C24_Witness ==
    /\ pc = "returned"
    /\ results.total_files = 2
    /\ results.processed_files = 2
    /\ DOMAIN results.categories = {"Images"}
    /\ results.categories["Images"] = 2

(***************************************************************************)
(* The source tree, checked under Spec (output_folder is outside           *)
(* input_folder).                                                          *)
(***************************************************************************)
\* C25: a run only copies: no step changes a file of the source tree
\* (none is moved, renamed, truncated or deleted), and every file and
\* directory the runs create is under output_folder, whatever the outcome
\* of the run.
C25_SourceTreeUntouched ==
    /\ [][tree' = tree]_vars
    /\ [](\A q \in DOMAIN dest : Take(q, 2) = <<"out", "/">>)
    /\ [](\A d \in dirs : Take(d, 1) = <<"out">>)

\* a run that copied one file and failed on the other has returned, both
\* source files are as they were
C25_Witness ==
    /\ pc = "returned"
    /\ Len(tree) = 2
    /\ files = tree
    /\ \E k, j \in 1..2 :
          /\ plan[run][k].copied
          /\ plan[run][j].written
          /\ ~plan[run][j].copied
    /\ \A k \in 1..2 : tree[k].status = "ok"

(***************************************************************************)
(* The progress callback, checked under SpecCall.                          *)
(***************************************************************************)
\* the one call (k, total, basename) the iteration on the k-th file makes,
\* made when `finished` iterations of the run had finished
OneCall(k, finished) ==
    <<[i |-> k, total |-> results.total_files,
       filename |-> NameOf(file_path(files[k])), finished |-> finished]>>

\* C26, as claimed: the callback is invoked exactly once per discovered
\* file, in enumeration order, with (i, total, basename), i = 1..total, and
\* the invocation for a file happens after the classify/name/copy sequence
\* of that file has finished.
C26_CalledAfterEachFile ==
    (run > 0 /\ progress_callback # "none") =>
        \A k \in 1..idx :
            /\ plan[run][k].src = file_path(files[k])
            /\ plan[run][k].calls = OneCall(k, k)

\* C26, amended: the callback is invoked exactly once per discovered file,
\* in enumeration order, with (i, total, basename), i = 1..total, and the
\* invocation for a file happens before that file is classified, named and
\* copied: when it is made, the sequences of the i - 1 earlier files have
\* finished and that of file i has not begun.
C26_CalledBeforeEachFile ==
    (run > 0 /\ progress_callback # "none") =>
        \A k \in 1..idx :
            /\ plan[run][k].src = file_path(files[k])
            /\ plan[run][k].calls = OneCall(k, k - 1)

\* a run over two files has returned, the callback was called with
\* (1, 2, ...) and then with (2, 2, ...)
C26_Witness ==
    /\ pc = "returned"
    /\ progress_callback = "returns"
    /\ results.total_files = 2
    /\ plan[run][1].calls[1].i = 1
    /\ plan[run][2].calls[1].i = 2
    /\ plan[run][2].calls[1].finished = 1
    /\ plan[run][2].copied

(***************************************************************************)
(* The classifier of src/main.py, checked under SpecClassifyMain.          *)
(***************************************************************************)
\* C27: the result of detect_file_type is determined by the bytes and the
\* name of the file: it is the triple the classifier returns without a
\* logger, whether or not a logger is attached and whether or not the
\* logger's calls succeed.
C27_ResultIgnoresLogger ==
    cpc = "done" => cres = detect_file_type(cfile)

(***************************************************************************)
(* The list of files of a run, checked under SpecNested.                   *)
(***************************************************************************)
\* the paths this run has written so far
WrittenByRun == {q \in DOMAIN dest : dest[q].run = run}

\* C28: the list of files is fixed before the first file is touched: no
\* iteration changes it, total_files is the number of files present at
\* scan time, the run visits exactly those, in order, and no file written
\* by the run is in the list, also when output_folder is inside
\* input_folder.
C28_ListFixedBeforeLoop ==
    /\ [][pc = "processing" /\ pc' = "processing" => files' = files]_vars
    /\ [](run > 0 =>
            /\ results.total_files = Len(files)
            /\ Len(files) = Len(tree) + Cardinality(DOMAIN dest \ WrittenByRun)
            /\ Len(plan[run]) = idx
            /\ \A k \in 1..idx : plan[run][k].src = file_path(files[k])
            /\ \A k \in 1..Len(files) : file_path(files[k]) \notin WrittenByRun)

\* the second run has returned: it listed the two source files and the two
\* copies the first run made, copied all four, and none of its own copies
C28_Witness ==
    /\ root = "holds_output"
    /\ pc = "returned"
    /\ run = 2
    /\ Len(tree) = 2
    /\ results.total_files = 4
    /\ results.processed_files = 4
    /\ Cardinality(WrittenByRun) = 4
    /\ Cardinality(DOMAIN dest) = 6

(***************************************************************************)
(* Termination, checked under SpecLive.                                    *)
(***************************************************************************)
\* the path chosen for the file of entry e took at most `most` increments
\* of the duplicate counter
IncrementsAtMost(e, most) ==
    LET parts == splitext(e.candidate)
    IN  \/ e.dest_path = path_join(e.folder, e.candidate)
        \/ \E n \in 1..most :
              e.dest_path
                 = path_join(e.folder, parts[1] \o CounterText(n) \o parts[2])

\* C29: every run terminates: a run that is processing eventually returns,
\* having visited each listed file once, and the duplicate-name loop of
\* each file ends after finitely many increments of the counter, at most
\* as many as there are files in the destination.
C29_EveryRunReturns ==
    /\ (pc = "processing") ~> (pc = "returned")
    /\ [](pc = "returned" => idx = Len(files) /\ Len(plan[run]) = Len(files))
    /\ [][(pc = "processing" /\ idx' = idx + 1 /\ plan'[run][idx'].planned) =>
             IncrementsAtMost(plan'[run][idx'], Cardinality(DOMAIN dest))]_vars

\* the second run on two images of the same name has returned; its second
\* copy took three increments: x.png, x_1.png and x_2.png were there
C29_Witness ==
    /\ pc = "returned"
    /\ run = 2
    /\ Len(files) = 2
    /\ plan[run][2].copied
    /\ NameOf(plan[run][2].dest_path) = <<"x", "_", "3", ".", "p", "n", "g">>

(***************************************************************************)
(* The buttons and the worker threads, checked under SpecApp.              *)
(***************************************************************************)
\* the process_files of a worker thread finishes in this step
WorkerEnds ==
    \E w \in DOMAIN workers : workers[w] = "l583" /\ workers'[w] = "done"

\* C30, as claimed: while the window is open the Start button is enabled if
\* and only if no worker thread is running, and when the process_files of a
\* worker finishes processing is False, the Start button is enabled and the
\* Stop button is disabled.
C30_StartEnabledIffNoWorker ==
    /\ [](gui.window = "open" => (gui.start_button = "normal" <=> Alive = {}))
    /\ [][WorkerEnds => /\ ~gui'.processing
                        /\ gui'.start_button = "normal"
                        /\ gui'.stop_button = "disabled"]_vars

====
